---- MODULE Spec2Model ----
(***************************************************************************)
(* Model of eolearn/mask/cloud_mask.py: the multi-temporal cloud masking   *)
(* task AddMultiCloudMaskTask (temporal window, window statistics, mono    *)
(* and multi classification drivers, post-processing in execute).          *)
(*                                                                         *)
(* Conventions.  Frame, pixel, band and column indices are 0-based as in   *)
(* the Python source.  An array over an axis of length n is a function     *)
(* with domain 0..n-1.  Python's None is the empty function None for       *)
(* arrays and -1 for indices.  A tile is one image row of ImgW pixels      *)
(* (shape (t, 1, ImgW, NumBands)), so img_size = ImgW and the row-major    *)
(* pixel index is the column.                                              *)
(*                                                                         *)
(* Numbers.  Band values are small naturals.  A float quotient a/b is kept *)
(* as the pair <<a, b>>.  Probabilities are tenths (4 is 0.4).             *)
(***************************************************************************)
EXTENDS Integers, Sequences, FiniteSets, TLC

VARIABLES
    pc,               \* position of the running method
    err,              \* exception that left the method, "none" if none
    t,                \* bands.shape[0], the number of frames of the tile
    max_proc_frames,  \* self.max_proc_frames
    bands,            \* bands[f][p][b]
    is_data,          \* is_data[f][p]
    t_i,              \* loop variable of the driver, -1 before the first iteration
    nt_min,           \* lower bound of the current window / chunk
    nt_max,           \* upper bound (exclusive) of the current window / chunk
    nt_rel,           \* position of the target frame in the window
    prev_nt_min,
    prev_nt_max,
    loc_mu,           \* windowed mean per window position
    loc_var,          \* windowed pre-variance per window position
    multi_features,   \* column layout of the feature matrix of the last scored frame
    multi_proba,      \* probability buffer of the multi driver, None if it did not run
    multi_writes,     \* number of writes to each slot of multi_proba
    multi_calls,      \* the calls of multi_classifier.predict_proba, in order
    temp_mean,        \* temporal mean of the last scored frame's window, per pixel and band
    diff_mean,        \* difference-mean feature of the last scored frame, per pixel and band
    mono_proba,       \* probability buffer of the mono driver, None if it did not run
    mono_writes,      \* number of writes to each slot of mono_proba
    mono_chunks,      \* the chunks <<nt_min, nt_max>> the mono driver visited, in order
    mono_classifier,  \* in execute: the score the mono classifier gives pixel p of frame f
    multi_classifier, \* in execute: the score the multi classifier gives pixel p of frame f
    mono_proba_feature,   \* the five output names: TRUE if set, FALSE if None
    multi_proba_feature,
    mono_mask_feature,
    multi_mask_feature,
    mask_feature,
    average_over,     \* <<>> for None, <<r>> for the radius r
    dilation_size,    \* <<>> for None, <<r>> for the radius r
    avg_kernel,       \* <<>> for None, <<k>> for the set k of offsets of the disk
    dil_kernel,
    mono_mask,        \* locals of execute, None while unassigned
    multi_mask,
    inter_mask,
    driver_calls,     \* the drivers execute has called, in order
    eopatch_mask,     \* mask arrays execute wrote to the tile, by output name
    eopatch_data,     \* data arrays execute wrote to the tile, by output name
    task,             \* the task whose execute runs
    has_data_feature, \* self.data_feature in eopatch.data
    has_is_data,      \* self.is_data_feature in eopatch.mask
    classifier_invoked,   \* a classifier was called
    request_issued,   \* a request object was created and asked for dates or data
    data_empty,       \* AddCloudMaskTask: not eopatch.data
    service_type,     \* meta_info['service_type']
    cm_size_x,        \* <<>> for None, <<v>> for the value v
    cm_size_y,
    timestamps,       \* eopatch.timestamp, ascending dates
    request_dates,    \* what request.get_dates() returns, ascending dates
    failed,           \* the dates whose download fails
    new_data,         \* the frames _make_request returns, each named by its acquisition date
    new_dates,        \* the dates _make_request returns
    rescale           \* the rescale factors, None if not computed

tile_vars == <<t, max_proc_frames, bands, is_data>>
multi_vars == <<nt_rel, prev_nt_min, prev_nt_max, loc_mu, loc_var, multi_features,
                multi_writes, multi_calls, temp_mean, diff_mean>>
mono_vars == <<mono_writes, mono_chunks>>
config_vars == <<mono_classifier, multi_classifier, mono_proba_feature,
                 multi_proba_feature, mono_mask_feature, multi_mask_feature,
                 mask_feature, average_over, dilation_size, avg_kernel, dil_kernel>>
exec_vars == <<mono_mask, multi_mask, inter_mask, driver_calls, eopatch_mask, eopatch_data>>

input_vars == <<task, has_data_feature, has_is_data>>
ghost_vars == <<classifier_invoked, request_issued>>
cloud_vars == <<data_empty, service_type, cm_size_x, cm_size_y, timestamps,
                request_dates, failed, new_data, new_dates, rescale>>

vars == <<pc, err, t_i, nt_min, nt_max, multi_proba, mono_proba,
          tile_vars, multi_vars, mono_vars, config_vars, exec_vars,
          input_vars, ghost_vars, cloud_vars>>

----------------------------------------------------------------------------
(* Bounds of the model.                                                    *)

MaxFrames == 5
MaxWindow == 4
ImgW == 2
NumBands == 2
MaxExecFrames == 2
MaxExecWindow == 2
MaxRadius == 1
MaxDates == 3

----------------------------------------------------------------------------
(* Helpers.                                                                *)

Max2(a, b) == IF a >= b THEN a ELSE b
Min2(a, b) == IF a <= b THEN a ELSE b

None == <<>>
\* A slot of an np.empty buffer that was not written yet.
Unwritten == -1

Pixels == 0..(ImgW - 1)
Bands == 0..(NumBands - 1)
img_size == ImgW

\* a[k] for a Python index k of an axis of length n (a negative k counts from the end)
PyIndex(n, k) == IF k < 0 THEN k + n ELSE k

\* buf[lo*img_size : hi*img_size] = scores
write_slice(buf, lo, hi, scores) ==
    [s \in DOMAIN buf |->
        IF lo * img_size <= s /\ s < hi * img_size
        THEN scores[s - lo * img_size]
        ELSE buf[s]]

count_slice(writes, lo, hi) ==
    [s \in DOMAIN writes |->
        IF lo * img_size <= s /\ s < hi * img_size THEN writes[s] + 1 ELSE writes[s]]

\* One frame of band values: constant, or a gradient over columns and bands.
BandImages ==
    { [p \in Pixels |-> [b \in Bands |-> 1]],
      [p \in Pixels |-> [b \in Bands |-> 1 + p + 2 * b]] }

\* One frame of the validity mask: all valid, or the first column invalid.
ValidityImages ==
    { [p \in Pixels |-> TRUE],
      [p \in Pixels |-> p # 0] }

----------------------------------------------------------------------------
(* Temporal window.                                                        *)

\* frame_indices with the relative index taken before the clamp.
frame_indices_early_rel(mpf, num_of_frames, target_idx) ==
    LET reach_min == target_idx - (mpf \div 2)
        reach_max == target_idx + mpf - (mpf \div 2)
        shift == Max2(0, -reach_min) - Max2(0, reach_max - num_of_frames)
        lo == Max2(0, reach_min + shift)
        hi == Min2(num_of_frames, reach_max + shift)
    IN  [nt_min |-> lo, nt_max |-> hi, nt_rel |-> target_idx - (reach_min + shift)]

\* frame_indices without the shift of the reach.
frame_indices_noshift(mpf, num_of_frames, target_idx) ==
    LET reach_min == target_idx - (mpf \div 2)
        reach_max == target_idx + mpf - (mpf \div 2)
        lo == Max2(0, reach_min)
        hi == Min2(num_of_frames, reach_max)
    IN  [nt_min |-> lo, nt_max |-> hi, nt_rel |-> target_idx - lo]

frame_indices(mpf, num_of_frames, target_idx) ==
    LET reach_min == target_idx - (mpf \div 2)
        reach_max == target_idx + mpf - (mpf \div 2)
        shift == Max2(0, -reach_min) - Max2(0, reach_max - num_of_frames)
        lo == Max2(0, reach_min + shift)
        hi == Min2(num_of_frames, reach_max + shift)
    IN  [nt_min |-> lo, nt_max |-> hi, nt_rel |-> target_idx - lo]

----------------------------------------------------------------------------
(* Window statistics.  The Gaussian kernel is a 3-tap binomial kernel      *)
(* with integer weights 1 2 1; a blurred value is kept multiplied by KSum. *)

KernelWeights == [k \in -1..1 |-> IF k = 0 THEN 2 ELSE 1]
KSum == KernelWeights[-1] + KernelWeights[0] + KernelWeights[1]

\* cv2.BORDER_REFLECT: fedcba|abcdefgh|hgfedcb
Reflect(i) == IF i < 0 THEN -i - 1 ELSE IF i >= ImgW THEN 2 * ImgW - 1 - i ELSE i

GaussianBlur(x) ==
    [p \in Pixels |-> KernelWeights[-1] * x[Reflect(p - 1)]
                      + KernelWeights[0] * x[p]
                      + KernelWeights[1] * x[Reflect(p + 1)]]

win_avg(x) == GaussianBlur(x)
win_prevar(x) == GaussianBlur([p \in Pixels |-> x[p] * x[p]])

\* true_win_avg of one frame: win_avg(bands) / win_avg(is_data), zero weights set to 1.
true_win_avg(frame, valid) ==
    LET w == win_avg([p \in Pixels |-> IF valid[p] THEN 1 ELSE 0])
        avg_is_data == [p \in Pixels |-> IF w[p] = 0 THEN KSum ELSE w[p]]
    IN  [p \in Pixels |-> [b \in Bands |->
            <<win_avg([q \in Pixels |-> frame[q][b]])[p], avg_is_data[p]>>]]

\* win_prevar(bands) - mu*mu of one frame, as the quotient <<num, den>>.
win_var(frame, mu) ==
    [p \in Pixels |-> [b \in Bands |->
        LET pv == win_prevar([q \in Pixels |-> frame[q][b]])[p]
            a == mu[p][b][1]
            d == mu[p][b][2]
        IN  <<pv * d * d - KSum * a * a, KSum * d * d>>]]

\* ShiftAppend that overwrites the last entry without moving the others.
ShiftAppend_noshift(a, x) ==
    LET n == Cardinality(DOMAIN a)
    IN  [k \in DOMAIN a |-> IF k < n - 1 THEN a[k] ELSE x]

\* a[:-1] = a[1:]; a[-1] = x
ShiftAppend(a, x) ==
    LET n == Cardinality(DOMAIN a)
    IN  [k \in DOMAIN a |-> IF k < n - 1 THEN a[k + 1] ELSE x]

----------------------------------------------------------------------------
(* Feature assembly.                                                       *)

Col(stat) == [b \in Bands |-> [stat |-> stat, band |-> b]]

\* Interweave that lays the blocks one after the other.
Interweave_blockwise(parts) ==
    LET n == Len(parts)
    IN  [c \in 0..(n * NumBands - 1) |-> parts[(c \div NumBands) + 1][c % NumBands]]

\* out[..., k::n] = parts[k] for the n per-band blocks of parts
Interweave(parts) ==
    LET n == Len(parts)
    IN  [c \in 0..(n * NumBands - 1) |-> parts[(c % n) + 1][c \div n]]

Width(a) == Cardinality(DOMAIN a)

\* np.concatenate of two blocks along the column axis
Concat2(a, b) ==
    [c \in 0..(Width(a) + Width(b) - 1) |->
        IF c < Width(a) THEN a[c] ELSE b[c - Width(a)]]

assemble_features ==
    Concat2(Concat2(Concat2(Concat2(
        Col("raw"),
        Col("loc_mu")),
        Interweave(<<Col("ssim_max"), Col("ssim_mean"), Col("ssim_std")>>)),
        Interweave(<<Col("temp_min"), Col("temp_mean")>>)),
        Interweave(<<Col("diff_max"), Col("diff_mean")>>))

\* Stand-in of multi_classifier.predict_proba for one feature row: a
\* deterministic score in tenths that depends on the row's raw band values.
multi_predict_proba(raw) == Min2(10, 2 * raw[0] + raw[NumBands - 1])

----------------------------------------------------------------------------
(* Multi driver, _multi_iterations.                                        *)

InitTile ==
    /\ t \in 0..MaxFrames
    /\ max_proc_frames \in 1..MaxWindow
    /\ bands \in [0..(t - 1) -> BandImages]
    /\ is_data \in [0..(t - 1) -> ValidityImages]

\* The state of the variables a driver run on its own does not use.
IdleTile ==
    /\ t = 0 /\ max_proc_frames = 1
    /\ bands = <<>> /\ is_data = <<>>

IdleMulti ==
    /\ nt_rel = -1
    /\ prev_nt_min = -1 /\ prev_nt_max = -1
    /\ loc_mu = None /\ loc_var = None
    /\ multi_features = None
    /\ multi_writes = None
    /\ multi_calls = <<>>
    /\ temp_mean = None /\ diff_mean = None

IdleMono ==
    /\ mono_writes = None
    /\ mono_chunks = <<>>

IdleConfig ==
    /\ mono_classifier = None /\ multi_classifier = None
    /\ mono_proba_feature = FALSE /\ multi_proba_feature = FALSE
    /\ mono_mask_feature = FALSE /\ multi_mask_feature = FALSE
    /\ mask_feature = FALSE
    /\ average_over = <<>> /\ dilation_size = <<>>
    /\ avg_kernel = None /\ dil_kernel = None

IdleExec ==
    /\ mono_mask = None /\ multi_mask = None /\ inter_mask = None
    /\ driver_calls = <<>>
    /\ eopatch_mask = None /\ eopatch_data = None
    /\ classifier_invoked = FALSE /\ request_issued = FALSE

IdleCloud ==
    /\ data_empty = FALSE
    /\ service_type = "WMS"
    /\ cm_size_x = <<>> /\ cm_size_y = <<>>
    /\ timestamps = <<>> /\ request_dates = <<>> /\ failed = {}
    /\ new_data = None /\ new_dates = None
    /\ rescale = None

\* A driver run on its own is given both arrays.
IdleInput(name) ==
    /\ task = name
    /\ has_data_feature = TRUE /\ has_is_data = TRUE

InitMulti ==
    /\ InitTile
    /\ IdleMono /\ IdleConfig /\ IdleExec /\ IdleCloud
    /\ IdleInput("AddMultiCloudMaskTask")
    /\ mono_proba = None
    /\ pc = "multi_loop"
    /\ err = "none"
    /\ t_i = -1
    /\ nt_min = -1 /\ nt_max = -1 /\ nt_rel = -1
    /\ prev_nt_min = -1 /\ prev_nt_max = -1
    /\ loc_mu = None /\ loc_var = None
    /\ multi_features = None
    /\ multi_proba = [s \in 0..(t * img_size - 1) |-> Unwritten]
    /\ multi_writes = [s \in 0..(t * img_size - 1) |-> 0]
    /\ multi_calls = <<>>
    /\ temp_mean = None /\ diff_mean = None

\* Full computation of the statistics over the window [lo, hi).
full_loc_mu(lo, hi) ==
    [k \in 0..(hi - lo - 1) |-> true_win_avg(bands[lo + k], is_data[lo + k])]

full_loc_var(lo, hi, mu) ==
    [k \in 0..(hi - lo - 1) |-> win_var(bands[lo + k], mu[k])]

\* The window statistics after the update of one iteration.
update_loc_mu(w, prev_mu, p_min, p_max) ==
    IF prev_mu = None
        THEN full_loc_mu(w.nt_min, w.nt_max)
        ELSE IF p_min # w.nt_min \/ p_max # w.nt_max
        THEN ShiftAppend(prev_mu, true_win_avg(bands[w.nt_max - 1], is_data[w.nt_max - 1]))
        ELSE prev_mu

update_loc_var(w, prev_mu, prev_var, new_mu, p_min, p_max) ==
    IF prev_mu = None
        THEN full_loc_var(w.nt_min, w.nt_max, new_mu)
        ELSE IF p_min # w.nt_min \/ p_max # w.nt_max
        THEN ShiftAppend(prev_var,
                 win_var(bands[w.nt_max - 1], new_mu[Cardinality(DOMAIN new_mu) - 1]))
        ELSE prev_var

\* _ssim_stats stacks one SSIM map per neighbour; np.stack of no maps raises.
ssim_stats_raises(n_window) == n_window - 1 = 0

\* 1./t_rest raises when the window has no frame but the target.
diff_stats_raises(n_window) == n_window - 1 = 0

iteration_error(n_window) ==
    IF ssim_stats_raises(n_window) THEN "ValueError"
    ELSE IF diff_stats_raises(n_window) THEN "ZeroDivisionError"
    ELSE "none"

\* the frames of the window [lo, hi) that are not masked at pixel p
unmasked_frames(lo, hi, p) == {k \in lo..(hi - 1) : is_data[k][p]}

RECURSIVE SumFrames(_, _, _)
SumFrames(frames, p, b) ==
    IF frames = {} THEN 0
    ELSE LET k == CHOOSE f \in frames : TRUE
         IN  bands[k][p][b] + SumFrames(frames \ {k}, p, b)

\* _get_mean(masked_bands): np.ma.mean over the window, the quotient of the
\* sum and the count of the unmasked frames; where every frame is masked
\* the data of the masked result is the sum of no values.
get_mean(lo, hi) ==
    [p \in Pixels |-> [b \in Bands |->
        LET u == unmasked_frames(lo, hi, p)
        IN  IF u = {} THEN <<0, 1>> ELSE <<SumFrames(u, p, b), Cardinality(u)>>]]

\* diff_mean = (masked_bands[nt_rel]*(1. + 1./t_rest) - t_all*temp_mean/t_rest).data
\* as a quotient; numpy.ma keeps the first operand's data where the target is masked.
get_diff_mean(i, lo, hi, tm) ==
    LET t_all == hi - lo
        t_rest == t_all - 1
    IN  [p \in Pixels |-> [b \in Bands |->
            IF is_data[i][p]
            THEN <<bands[i][p][b] * (t_rest + 1) * tm[p][b][2] - t_all * tm[p][b][1],
                   t_rest * tm[p][b][2]>>
            ELSE <<bands[i][p][b], 1>>]]

\* bands_t[nt_rel] raises when nt_rel is no index of the window
index_error(w) ==
    LET n == w.nt_max - w.nt_min
    IN  w.nt_rel >= n \/ w.nt_rel < -n

\* Slots that always are those of frame 0.
multi_slots_first(i) == [lo |-> 0, hi |-> 1]

\* multi_proba[t_i*img_size:(t_i+1)*img_size]: the frames whose slots are written
multi_slots(i) == [lo |-> i, hi |-> i + 1]

MultiIteration ==
    /\ pc = "multi_loop"
    /\ t_i + 1 < t
    /\ LET i == t_i + 1
           w == frame_indices(max_proc_frames, t, i)
           new_mu == update_loc_mu(w, loc_mu, prev_nt_min, prev_nt_max)
           new_var == update_loc_var(w, loc_mu, loc_var, new_mu, prev_nt_min, prev_nt_max)
           e == IF index_error(w) THEN "IndexError"
                ELSE iteration_error(w.nt_max - w.nt_min)
           sl == multi_slots(i)
           scores == [r \in 0..(img_size - 1) |-> multi_predict_proba(bands[i][r])]
       IN  /\ t_i' = i
           /\ nt_min' = w.nt_min /\ nt_max' = w.nt_max /\ nt_rel' = w.nt_rel
           /\ loc_mu' = new_mu
           /\ loc_var' = new_var
           /\ err' = e
           /\ IF e # "none"
              THEN /\ pc' = "raised"
                   /\ UNCHANGED <<multi_features, multi_proba, multi_writes,
                                  multi_calls, temp_mean, diff_mean,
                                  prev_nt_min, prev_nt_max>>
              ELSE /\ pc' = "multi_loop"
                   /\ multi_features' = assemble_features
                   /\ temp_mean' = get_mean(w.nt_min, w.nt_max)
                   /\ diff_mean' = get_diff_mean(i, w.nt_min, w.nt_max,
                                                  get_mean(w.nt_min, w.nt_max))
                   /\ multi_calls' = Append(multi_calls,
                          [target |-> i, loc_mu |-> new_mu[PyIndex(w.nt_max - w.nt_min, w.nt_rel)]])
                   /\ multi_proba' = write_slice(multi_proba, sl.lo, sl.hi, scores)
                   /\ multi_writes' = count_slice(multi_writes, sl.lo, sl.hi)
                   /\ prev_nt_min' = w.nt_min
                   /\ prev_nt_max' = w.nt_max
    /\ UNCHANGED <<mono_proba, tile_vars, mono_vars, config_vars, exec_vars,
                   input_vars, ghost_vars, cloud_vars>>

MultiReturn ==
    /\ pc = "multi_loop"
    /\ t_i + 1 >= t
    /\ pc' = "multi_done"
    /\ UNCHANGED <<err, t_i, nt_min, nt_max, multi_proba, mono_proba,
                   tile_vars, multi_vars, mono_vars, config_vars, exec_vars,
                   input_vars, ghost_vars, cloud_vars>>

NextMulti == MultiIteration \/ MultiReturn

SpecMulti == InitMulti /\ [][NextMulti]_vars

----------------------------------------------------------------------------
(* Mono driver, _mono_iterations.                                          *)

\* Stand-in of mono_classifier.predict_proba for one feature row (the raw
\* band vector of one pixel): a deterministic score in tenths.
mono_predict_proba(row) == Min2(10, row[0] + 3 * row[NumBands - 1])

\* A chunk that stops one frame short.
mono_chunk_short(start, mpf, total) ==
    [nt_min |-> start, nt_max |-> Min2(start + mpf - 1, total)]

\* nt_min = t_i; nt_max = min(t_i + max_proc_frames, t)
mono_chunk(start, mpf, total) ==
    [nt_min |-> start, nt_max |-> Min2(start + mpf, total)]

\* bands_t.reshape(prod(shape[:-1]), shape[-1]): row r is pixel r % img_size
\* of frame lo + r \div img_size.
mono_features(lo, hi) ==
    [r \in 0..((hi - lo) * img_size - 1) |-> bands[lo + (r \div img_size)][r % img_size]]

\* range(0, t, max_proc_frames): the value after cur, -1 standing for "not started"
next_range(cur, step) == IF cur = -1 THEN 0 ELSE cur + step

InitMono ==
    /\ InitTile
    /\ IdleMulti /\ IdleConfig /\ IdleExec /\ IdleCloud
    /\ IdleInput("AddMultiCloudMaskTask")
    /\ multi_proba = None
    /\ pc = "mono_loop"
    /\ err = "none"
    /\ t_i = -1
    /\ nt_min = -1 /\ nt_max = -1
    /\ mono_proba = [s \in 0..(t * img_size - 1) |-> Unwritten]
    /\ mono_writes = [s \in 0..(t * img_size - 1) |-> 0]
    /\ mono_chunks = <<>>

MonoIteration ==
    /\ pc = "mono_loop"
    /\ next_range(t_i, max_proc_frames) < t
    /\ LET i == next_range(t_i, max_proc_frames)
           c == mono_chunk(i, max_proc_frames, t)
           rows == mono_features(c.nt_min, c.nt_max)
           scores == [r \in DOMAIN rows |-> mono_predict_proba(rows[r])]
       IN  /\ t_i' = i
           /\ nt_min' = c.nt_min
           /\ nt_max' = c.nt_max
           /\ mono_proba' = write_slice(mono_proba, c.nt_min, c.nt_max, scores)
           /\ mono_writes' = count_slice(mono_writes, c.nt_min, c.nt_max)
           /\ mono_chunks' = Append(mono_chunks, <<c.nt_min, c.nt_max>>)
    /\ UNCHANGED <<pc, err, multi_proba, tile_vars, multi_vars, config_vars, exec_vars,
                   input_vars, ghost_vars, cloud_vars>>

MonoReturn ==
    /\ pc = "mono_loop"
    /\ next_range(t_i, max_proc_frames) >= t
    /\ pc' = "mono_done"
    /\ UNCHANGED <<err, t_i, nt_min, nt_max, multi_proba, mono_proba,
                   tile_vars, multi_vars, mono_vars, config_vars, exec_vars,
                   input_vars, ghost_vars, cloud_vars>>

NextMono == MonoIteration \/ MonoReturn

SpecMono == InitMono /\ [][NextMono]_vars

----------------------------------------------------------------------------
(* Post-processing primitives.  A frame of a probability map is a function *)
(* from pixels to tenths; an averaged value is the quotient <<sum, n>>.    *)

mono_threshold == 4
multi_threshold == 5

\* One frame of classifier scores: a weak cloud on the first column, or a
\* strong cloud on the last column.
ProbaImages ==
    { [p \in Pixels |-> IF p = 0 THEN 5 ELSE 0],
      [p \in Pixels |-> IF p = ImgW - 1 THEN 9 ELSE 0] }

AverageSizes == {<<>>, <<1>>}
DilationSizes == {<<>>} \cup {<<r>> : r \in 0..MaxRadius}

\* skimage.morphology.disk(r): the offsets <<dy, dx>> set in the (2r+1)x(2r+1) array
disk(r) == {d \in (-r..r) \X (-r..r) : d[1] * d[1] + d[2] * d[2] <= r * r}

\* the kernel __init__ derives from a radius: None unless the radius is set and positive
make_kernel(size) == IF size # <<>> /\ size[1] > 0 THEN <<disk(size[1])>> ELSE None

RECURSIVE SumOver(_, _, _)
SumOver(k, x, p) ==
    IF k = {} THEN 0
    ELSE LET d == CHOOSE e \in k : TRUE
         IN  x[Reflect(p + d[2])] + SumOver(k \ {d}, x, p)

\* cv2.filter2D with avg_kernel = disk / sum(disk) and BORDER_REFLECT; on a
\* one-row image every row offset reflects to the row itself.
average(x) == [p \in Pixels |-> <<SumOver(avg_kernel[1], x, p), Cardinality(avg_kernel[1])>>]

average_all(data) ==
    IF avg_kernel # None
    THEN [f \in DOMAIN data |-> average(data[f])]
    ELSE [f \in DOMAIN data |-> [p \in Pixels |-> <<data[f][p], 1>>]]

\* averaged >= threshold
threshold(data, thr) ==
    [f \in DOMAIN data |-> [p \in Pixels |-> data[f][p][1] >= thr * data[f][p][2]]]

\* A dilation whose structuring element lacks its centre.
dilate_nocentre(x) ==
    [p \in Pixels |->
        \E d \in dil_kernel[1] \ {<<0, 0>>} :
            d[1] = 0 /\ p + d[2] \in Pixels /\ x[p + d[2]]]

\* cv2.dilate(x, dil_kernel) > 0: the maximum over the offsets of the disk
\* that fall inside the one-row image.
dilate(x) ==
    [p \in Pixels |->
        \E d \in dil_kernel[1] :
            d[1] = 0 /\ p + d[2] \in Pixels /\ x[p + d[2]]]

dilate_all(data) ==
    IF dil_kernel # None
    THEN [f \in DOMAIN data |-> dilate(data[f])]
    ELSE data

\* The union instead of the intersection.
intersect_or(a, b) == [f \in DOMAIN a |-> [p \in Pixels |-> a[f][p] \/ b[f][p]]]

\* mono_mask & multi_mask
intersect(a, b) == [f \in DOMAIN a |-> [p \in Pixels |-> a[f][p] /\ b[f][p]]]

\* A write that forgets the validity mask.
mask_valid_missing(m) == m

\* (mask * is_data).astype(bool)
mask_valid(m) == [f \in DOMAIN m |-> [p \in Pixels |-> m[f][p] /\ is_data[f][p]]]

\* (proba * is_data).astype(np.float32)
proba_valid(x) == [f \in DOMAIN x |-> [p \in Pixels |-> IF is_data[f][p] THEN x[f][p] ELSE 0]]

\* buf.reshape(*bands.shape[:-1], 1)
reshape(buf) == [f \in 0..(t - 1) |-> [p \in Pixels |-> buf[f * img_size + p]]]

----------------------------------------------------------------------------
(* execute.  The classifiers are given by the score they return for each   *)
(* pixel of the tile; the drivers write that score to the pixel's slot.    *)

\* what _mono_iterations returns
mono_iterations(clf) ==
    [s \in 0..(t * img_size - 1) |-> clf[s \div img_size][s % img_size]]

\* the exception of the first iteration of _multi_iterations that raises
multi_iterations_error ==
    LET len(i) == frame_indices(max_proc_frames, t, i).nt_max
                  - frame_indices(max_proc_frames, t, i).nt_min
        bad == {i \in 0..(t - 1) : iteration_error(len(i)) # "none"}
    IN  IF bad = {} THEN "none"
        ELSE iteration_error(len(CHOOSE i \in bad : \A j \in bad : i <= j))

\* what _multi_iterations returns when no iteration raises
multi_iterations(clf) ==
    [s \in 0..(t * img_size - 1) |-> clf[s \div img_size][s % img_size]]

\* Branches that do not look at mask_feature.
drivers_to_run_nomask ==
    IF ~multi_proba_feature /\ ~multi_mask_feature
    THEN <<"mono">>
    ELSE IF ~mono_proba_feature /\ ~mono_mask_feature
    THEN <<"multi">>
    ELSE <<"multi", "mono">>

\* the drivers the branches of execute call, in order
drivers_to_run ==
    IF ~multi_proba_feature /\ ~multi_mask_feature /\ ~mask_feature
    THEN <<"mono">>
    ELSE IF ~mono_proba_feature /\ ~mono_mask_feature /\ ~mask_feature
    THEN <<"multi">>
    ELSE <<"multi", "mono">>

Called(calls, d) == \E k \in 1..Len(calls) : calls[k] = d

InitExec ==
    /\ t \in 1..MaxExecFrames
    /\ max_proc_frames \in 1..MaxExecWindow
    /\ bands = [f \in 0..(t - 1) |-> [p \in Pixels |-> [b \in Bands |-> 1]]]
    /\ is_data \in [0..(t - 1) -> ValidityImages]
    /\ mono_classifier \in [0..(t - 1) -> ProbaImages]
    /\ multi_classifier \in [0..(t - 1) -> ProbaImages]
    /\ mono_proba_feature \in BOOLEAN
    /\ multi_proba_feature \in BOOLEAN
    /\ mono_mask_feature \in BOOLEAN
    /\ multi_mask_feature \in BOOLEAN
    /\ mask_feature \in BOOLEAN
    /\ average_over \in AverageSizes
    /\ dilation_size \in DilationSizes
    /\ avg_kernel = make_kernel(average_over)
    /\ dil_kernel = make_kernel(dilation_size)
    /\ IdleMulti /\ IdleMono /\ IdleExec /\ IdleCloud
    /\ task = "AddMultiCloudMaskTask"
    /\ has_data_feature \in BOOLEAN
    /\ has_is_data \in BOOLEAN
    /\ pc = "exec_drivers"
    /\ err = "none"
    /\ t_i = -1 /\ nt_min = -1 /\ nt_max = -1
    /\ mono_proba = None
    /\ multi_proba = None

\* Lines 720-722: eopatch.data[self.data_feature] and
\* eopatch.mask[self.is_data_feature] raise for a name the tile lacks.
get_data_error == IF has_data_feature /\ has_is_data THEN "none" ELSE "KeyError"

\* Lines 720-754: the input arrays, the branch on the requested outputs and
\* the driver calls.
ExecDrivers ==
    /\ pc = "exec_drivers"
    /\ LET calls == drivers_to_run
           e == IF Called(calls, "multi") THEN multi_iterations_error ELSE "none"
       IN  IF get_data_error # "none"
           THEN /\ pc' = "raised"
                /\ err' = get_data_error
                /\ UNCHANGED <<mono_proba, multi_proba, driver_calls, classifier_invoked>>
           ELSE IF e # "none"
           THEN /\ pc' = "raised"
                /\ err' = e
                /\ driver_calls' = <<"multi">>
                /\ UNCHANGED <<mono_proba, multi_proba, classifier_invoked>>
           ELSE /\ pc' = "exec_masks"
                /\ err' = "none"
                /\ driver_calls' = calls
                /\ classifier_invoked' = TRUE
                /\ mono_proba' = IF Called(calls, "mono")
                                 THEN mono_iterations(mono_classifier) ELSE None
                /\ multi_proba' = IF Called(calls, "multi")
                                  THEN multi_iterations(multi_classifier) ELSE None
    /\ UNCHANGED <<t_i, nt_min, nt_max, tile_vars, multi_vars, mono_vars, config_vars,
                   mono_mask, multi_mask, inter_mask, eopatch_mask, eopatch_data,
                   input_vars, request_issued, cloud_vars>>

\* Lines 756-780: reshape, average, threshold, intersect.
ExecMasks ==
    /\ pc = "exec_masks"
    /\ LET need_mono == mono_mask_feature \/ mask_feature
           need_multi == multi_mask_feature \/ mask_feature
           mono_r == IF mono_proba # None THEN reshape(mono_proba) ELSE None
           multi_r == IF multi_proba # None THEN reshape(multi_proba) ELSE None
           mono_m == IF need_mono
                     THEN threshold(average_all(mono_r), mono_threshold) ELSE None
           multi_m == IF need_multi
                      THEN threshold(average_all(multi_r), multi_threshold) ELSE None
       IN  IF (need_mono /\ mono_proba = None) \/ (need_multi /\ multi_proba = None)
           THEN /\ pc' = "raised"
                /\ err' = "TypeError"
                /\ UNCHANGED <<mono_proba, multi_proba, mono_mask, multi_mask, inter_mask>>
           ELSE /\ pc' = "exec_write"
                /\ err' = "none"
                /\ mono_proba' = mono_r
                /\ multi_proba' = multi_r
                /\ mono_mask' = mono_m
                /\ multi_mask' = multi_m
                /\ inter_mask' = IF mask_feature THEN intersect(mono_m, multi_m) ELSE None
    /\ UNCHANGED <<t_i, nt_min, nt_max, tile_vars, multi_vars, mono_vars, config_vars,
                   driver_calls, eopatch_mask, eopatch_data,
                   input_vars, ghost_vars, cloud_vars>>

\* Lines 782-803: dilate the requested masks and write the requested outputs.
ExecWrite ==
    /\ pc = "exec_write"
    /\ IF (mono_mask_feature /\ mono_mask = None)
          \/ (multi_mask_feature /\ multi_mask = None)
          \/ (mask_feature /\ inter_mask = None)
       THEN /\ pc' = "raised"
            /\ err' = "UnboundLocalError"
            /\ UNCHANGED <<mono_mask, multi_mask, inter_mask, eopatch_mask, eopatch_data>>
       ELSE IF (mono_proba_feature /\ mono_proba = None)
          \/ (multi_proba_feature /\ multi_proba = None)
       THEN /\ pc' = "raised"
            /\ err' = "TypeError"
            /\ UNCHANGED <<mono_mask, multi_mask, inter_mask, eopatch_mask, eopatch_data>>
       ELSE /\ pc' = "exec_done"
            /\ err' = "none"
            /\ mono_mask' = IF mono_mask_feature THEN dilate_all(mono_mask) ELSE mono_mask
            /\ multi_mask' = IF multi_mask_feature THEN dilate_all(multi_mask) ELSE multi_mask
            /\ inter_mask' = IF mask_feature THEN dilate_all(inter_mask) ELSE inter_mask
            /\ eopatch_mask' =
                 [mono_mask_feature |->
                      IF mono_mask_feature THEN mask_valid(mono_mask') ELSE None,
                  multi_mask_feature |->
                      IF multi_mask_feature THEN mask_valid(multi_mask') ELSE None,
                  mask_feature |->
                      IF mask_feature THEN mask_valid(inter_mask') ELSE None]
            /\ eopatch_data' =
                 [mono_proba_feature |->
                      IF mono_proba_feature THEN proba_valid(mono_proba) ELSE None,
                  multi_proba_feature |->
                      IF multi_proba_feature THEN proba_valid(multi_proba) ELSE None]
    /\ UNCHANGED <<t_i, nt_min, nt_max, mono_proba, multi_proba, tile_vars, multi_vars,
                   mono_vars, config_vars, driver_calls,
                   input_vars, ghost_vars, cloud_vars>>

NextExec == ExecDrivers \/ ExecMasks \/ ExecWrite

SpecExec == InitExec /\ [][NextExec]_vars

(***************************************************************************)
(* AddCloudMaskTask.execute.  Dates are the integers 1..MaxDates; a date   *)
(* list is a sequence in ascending order, and a position in a list is the  *)
(* Python index plus one.  A downloaded frame is named by its acquisition  *)
(* date; NoFrame stands for the None of a failed download.  A size is <<>> *)
(* for None and <<v>> for v (pixels for WMS, metres for WCS).              *)
(***************************************************************************)
Dates == 1..MaxDates
NoFrame == 0
ServiceTypes == {"WMS", "WCS"}
Sizes == {<<>>, <<1>>, <<2>>}

\* meta_info['size_x'], meta_info['size_y'] of line 153, in metres.
meta_info == [size_x |-> 2, size_y |-> 2]

RECURSIVE SortedSeq(_)
SortedSeq(S) ==
    IF S = {} THEN <<>>
    ELSE LET m == CHOOSE x \in S : \A y \in S : x <= y
         IN  <<m>> \o SortedSeq(S \ {m})

RECURSIVE Filter(_, _)
Filter(seq, S) ==
    IF seq = <<>> THEN <<>>
    ELSE (IF Head(seq) \in S THEN <<Head(seq)>> ELSE <<>>) \o Filter(Tail(seq), S)

Range(seq) == {seq[k] : k \in DOMAIN seq}

\* del seq[idx]
Del(seq, idx) == [k \in 1..(Len(seq) - 1) |-> IF k < idx THEN seq[k] ELSE seq[k + 1]]

\* Lines 245-248: for idx in reversed(sorted(bad_data)): del seq[idx]
RECURSIVE DelAll(_, _)
DelAll(seq, bad) ==
    IF bad = {} THEN seq
    ELSE LET idx == CHOOSE x \in bad : \A y \in bad : y <= x
         IN  DelAll(Del(seq, idx), bad \ {idx})

\* The positions of source whose date is also in target.
get_common_timestamps(source, target) ==
    {k \in DOMAIN source : source[k] \in Range(target)}

\* request.get_data(raise_download_errors=False, data_filter=frames): one
\* entry per position of the filter, None for a failed download.
get_data(dates, frames) ==
    LET idxs == SortedSeq(frames)
    IN  [k \in DOMAIN idxs |-> IF dates[idxs[k]] \in failed THEN NoFrame ELSE dates[idxs[k]]]

\* eopatch.consolidate_timestamps(new_dates): the tile keeps the frames whose
\* date is in new_dates.
consolidate_timestamps(stamps, dates) == Filter(stamps, Range(dates))

\* Lines 148-151 and 222-225: for WCS a missing size takes the other's value.
wcs_sizes(st, x, y) ==
    IF st = "WCS"
    THEN IF y = None THEN [x |-> x, y |-> x]
         ELSE IF x = None THEN [x |-> y, y |-> y]
         ELSE [x |-> x, y |-> y]
    ELSE [x |-> x, y |-> y]

\* Lines 122-157, with the quotients as pairs <<numerator, denominator>>.
get_rescale_factors(st, x, y) ==
    LET height == 1
        width == ImgW
        sz == wcs_sizes(st, x, y)
    IN  IF st = "WMS"
        THEN IF x = None /\ y # None
             THEN [err |-> "none", rescale |-> <<<<y[1], height>>, <<y[1], height>>>>]
             ELSE IF x # None /\ y = None
             THEN [err |-> "none", rescale |-> <<<<x[1], width>>, <<x[1], width>>>>]
             ELSE IF x = None
             THEN [err |-> "TypeError", rescale |-> None]
             ELSE [err |-> "none", rescale |-> <<<<y[1], height>>, <<x[1], width>>>>]
        ELSE IF sz.x = None
             THEN [err |-> "AttributeError", rescale |-> None]
             ELSE [err |-> "none",
                   rescale |-> <<<<meta_info.size_y, sz.y[1]>>, <<meta_info.size_x, sz.x[1]>>>>]

\* Lines 217-218 with every size None.
make_request_unchecked(x, y) == "none"
\* Lines 217-218.
make_request_error(x, y) ==
    IF x = None /\ y = None THEN "ValueError" ELSE "none"

InitCloud ==
    /\ IdleTile /\ IdleMulti /\ IdleMono /\ IdleConfig /\ IdleExec
    /\ t_i = -1 /\ nt_min = -1 /\ nt_max = -1
    /\ mono_proba = None /\ multi_proba = None
    /\ task = "AddCloudMaskTask"
    /\ has_is_data = TRUE
    /\ has_data_feature \in BOOLEAN
    /\ data_empty \in BOOLEAN
    /\ data_empty => ~has_data_feature
    /\ service_type \in ServiceTypes
    /\ cm_size_x \in Sizes
    /\ cm_size_y \in Sizes
    /\ \E S \in SUBSET Dates : timestamps = SortedSeq(S)
    /\ \E S \in SUBSET Dates : request_dates = SortedSeq(S)
    /\ failed \in SUBSET (Range(timestamps) \cap Range(request_dates))
    /\ new_data = None /\ new_dates = None
    /\ rescale = None
    /\ pc = "cloud_start"
    /\ err = "none"

\* Lines 259-260.
CloudNoData ==
    /\ pc = "cloud_start"
    /\ data_empty
    /\ pc' = "raised"
    /\ err' = "ValueError"
    /\ UNCHANGED <<t_i, nt_min, nt_max, multi_proba, mono_proba,
                   tile_vars, multi_vars, mono_vars, config_vars, exec_vars,
                   input_vars, ghost_vars, cloud_vars>>

\* Lines 261-263 with _downscaling, lines 159-181: the tile's own frames,
\* downscaled unless both sizes are None.
CloudDownscale ==
    /\ pc = "cloud_start"
    /\ ~data_empty
    /\ has_data_feature
    /\ LET full == cm_size_x = None /\ cm_size_y = None
           sz == wcs_sizes(service_type, cm_size_x, cm_size_y)
           r == get_rescale_factors(service_type, cm_size_x, cm_size_y)
       IN  /\ new_data' = timestamps
           /\ rescale' = IF full THEN None ELSE r.rescale
           /\ cm_size_x' = IF full THEN cm_size_x ELSE sz.x
           /\ cm_size_y' = IF full THEN cm_size_y ELSE sz.y
    /\ pc' = "cloud_classify"
    /\ UNCHANGED <<err, t_i, nt_min, nt_max, multi_proba, mono_proba,
                   tile_vars, multi_vars, mono_vars, config_vars, exec_vars,
                   input_vars, ghost_vars, data_empty, service_type, timestamps,
                   request_dates, failed, new_dates>>

\* Line 265 with _make_request, lines 207-250.
CloudMakeRequest ==
    /\ pc = "cloud_start"
    /\ ~data_empty
    /\ ~has_data_feature
    /\ LET e == make_request_error(cm_size_x, cm_size_y)
           sz == wcs_sizes(service_type, cm_size_x, cm_size_y)
           download_frames == get_common_timestamps(request_dates, timestamps)
           request_return == get_data(request_dates, download_frames)
           bad_data == {k \in DOMAIN request_return : request_return[k] = NoFrame}
       IN  IF e # "none"
           THEN /\ pc' = "raised"
                /\ err' = e
                /\ UNCHANGED <<cm_size_x, cm_size_y, request_issued, new_data, new_dates>>
           ELSE /\ pc' = "cloud_requested"
                /\ err' = "none"
                /\ cm_size_x' = sz.x
                /\ cm_size_y' = sz.y
                /\ request_issued' = TRUE
                /\ new_data' = DelAll(request_return, bad_data)
                /\ new_dates' = DelAll(request_dates, bad_data)
    /\ UNCHANGED <<t_i, nt_min, nt_max, multi_proba, mono_proba,
                   tile_vars, multi_vars, mono_vars, config_vars, exec_vars,
                   input_vars, classifier_invoked, data_empty, service_type,
                   timestamps, request_dates, failed, rescale>>

\* Lines 266-277.  The tile holds a data feature here (line 259), so line 272
\* does not raise.
CloudConsolidate ==
    /\ pc = "cloud_requested"
    /\ LET sz == wcs_sizes(service_type, cm_size_x, cm_size_y)
           r == get_rescale_factors(service_type, cm_size_x, cm_size_y)
       IN  /\ timestamps' = consolidate_timestamps(timestamps, new_dates)
           /\ IF r.err # "none"
              THEN /\ pc' = "raised"
                   /\ err' = r.err
                   /\ UNCHANGED <<rescale, cm_size_x, cm_size_y>>
              ELSE /\ pc' = "cloud_classify"
                   /\ err' = "none"
                   /\ rescale' = r.rescale
                   /\ cm_size_x' = sz.x
                   /\ cm_size_y' = sz.y
    /\ UNCHANGED <<t_i, nt_min, nt_max, multi_proba, mono_proba,
                   tile_vars, multi_vars, mono_vars, config_vars, exec_vars,
                   input_vars, ghost_vars, data_empty, service_type,
                   request_dates, failed, new_data, new_dates>>

\* Lines 279-291: the classifier scores new_data and the mask is stored.
CloudClassify ==
    /\ pc = "cloud_classify"
    /\ classifier_invoked' = TRUE
    /\ eopatch_mask' = [cm_feature |-> new_data]
    /\ pc' = "cloud_done"
    /\ UNCHANGED <<err, t_i, nt_min, nt_max, multi_proba, mono_proba,
                   tile_vars, multi_vars, mono_vars, config_vars,
                   mono_mask, multi_mask, inter_mask, driver_calls, eopatch_data,
                   input_vars, request_issued, cloud_vars>>

NextCloud ==
    CloudNoData \/ CloudDownscale \/ CloudMakeRequest \/ CloudConsolidate \/ CloudClassify

SpecCloud == InitCloud /\ [][NextCloud]_vars

\* Either task run on a tile.
InitTasks == InitExec \/ InitCloud

NextTasks == NextExec \/ NextCloud

SpecTasks == InitTasks /\ [][NextTasks]_vars

----------------------------------------------------------------------------
(* Properties of the temporal window and the multi driver (SpecMulti).     *)

\* C1: for every frame count, target frame and window size the window
\* returned by _frame_indices satisfies 0 <= low <= target < high <= total
\* and rel = target - low.
C1_WindowContainsTarget ==
    t_i >= 0 =>
        /\ 0 <= nt_min
        /\ nt_min <= t_i
        /\ t_i < nt_max
        /\ nt_max <= t
        /\ nt_rel = t_i - nt_min

\* A window that was shifted left at the end of the sequence and clamped.
C1_Witness ==
    /\ t = 3 /\ max_proc_frames = 4 /\ t_i = 2
    /\ nt_min = 0 /\ nt_max = 3 /\ nt_rel = 2

\* C2: at every target frame the stored windowed mean and pre-variance at
\* window position k are the statistics of frame low+k, i.e. the
\* incrementally maintained state equals a full recomputation over the
\* current window.
C2_IncrementalEqualsFull ==
    t_i >= 0 =>
        /\ loc_mu = full_loc_mu(nt_min, nt_max)
        /\ loc_var = full_loc_var(nt_min, nt_max, full_loc_mu(nt_min, nt_max))

\* The window has slid at least twice over frames with different statistics.
C2_Witness ==
    /\ t_i >= 0 /\ nt_min >= 2 /\ nt_max - nt_min >= 2
    /\ err = "none"
    /\ loc_mu[0] # loc_mu[1]
    /\ loc_var[0] # loc_var[1]

\* C7: when the window holds only the target frame the multi driver still
\* completes the frame with a defined feature vector and raises nothing.
C7_DegenerateWindowCompletes ==
    (t_i >= 0 /\ nt_max - nt_min = 1) =>
        /\ err = "none"
        /\ pc # "raised"
        /\ multi_features # None
        /\ \A p \in Pixels : multi_proba[t_i * img_size + p] # Unwritten

\* C8: the window has exactly min(max_window, total_frames) frames; for
\* total_frames=5, target_index=0, max_window=3 it is low=0, high=3, rel=0.
C8_WindowLength ==
    t_i >= 0 =>
        /\ nt_max - nt_min = Min2(max_proc_frames, t)
        /\ nt_max - nt_min <= max_proc_frames
        /\ (t = 5 /\ t_i = 0 /\ max_proc_frames = 3) =>
               (nt_min = 0 /\ nt_max = 3 /\ nt_rel = 0)

\* The scenario of the specification: 5 frames, target 0, window 3.
C8_Witness ==
    /\ t = 5 /\ t_i = 0 /\ max_proc_frames = 3
    /\ nt_min = 0 /\ nt_max = 3 /\ nt_rel = 0

\* C9: with B bands the feature vector has 9B columns: [0,B) raw band
\* values, [B,2B) local mean, 2B+3b.. SSIM max, mean, std of band b,
\* 5B+2b.. temporal min, mean, 7B+2b.. difference max, mean.
C9_FeatureLayout ==
    multi_features # None =>
        /\ DOMAIN multi_features = 0..(9 * NumBands - 1)
        /\ \A b \in Bands :
            /\ multi_features[b] = [stat |-> "raw", band |-> b]
            /\ multi_features[NumBands + b] = [stat |-> "loc_mu", band |-> b]
            /\ multi_features[2 * NumBands + 3 * b] = [stat |-> "ssim_max", band |-> b]
            /\ multi_features[2 * NumBands + 3 * b + 1] = [stat |-> "ssim_mean", band |-> b]
            /\ multi_features[2 * NumBands + 3 * b + 2] = [stat |-> "ssim_std", band |-> b]
            /\ multi_features[5 * NumBands + 2 * b] = [stat |-> "temp_min", band |-> b]
            /\ multi_features[5 * NumBands + 2 * b + 1] = [stat |-> "temp_mean", band |-> b]
            /\ multi_features[7 * NumBands + 2 * b] = [stat |-> "diff_max", band |-> b]
            /\ multi_features[7 * NumBands + 2 * b + 1] = [stat |-> "diff_mean", band |-> b]

\* A frame was scored, so its feature matrix was assembled.
C9_Witness ==
    /\ multi_features # None
    /\ t_i >= 1
    /\ multi_proba[t_i * img_size] # Unwritten

----------------------------------------------------------------------------
(* Properties of the mono driver (SpecMono).                               *)

\* C3: the chunks of the mono driver are visited in ascending order, are
\* pairwise disjoint, hold at most max_proc_frames frames each and together
\* cover exactly the frames 0..t-1; every slot (frame, pixel) is written
\* once, so the returned buffer holds the score of each pixel's own band
\* vector whatever the chunk size.
C3_ChunksPartitionFrames ==
    /\ \A k \in 1..Len(mono_chunks) :
        /\ mono_chunks[k][1] = (k - 1) * max_proc_frames
        /\ mono_chunks[k][1] < mono_chunks[k][2]
        /\ mono_chunks[k][2] - mono_chunks[k][1] <= max_proc_frames
        /\ mono_chunks[k][2] <= t
        /\ k > 1 => mono_chunks[k - 1][2] = mono_chunks[k][1]
    /\ pc = "mono_loop" =>
        \A s \in DOMAIN mono_proba : mono_writes[s] <= 1
    /\ pc = "mono_done" =>
        /\ \A f \in 0..(t - 1) :
            \E k \in 1..Len(mono_chunks) :
                mono_chunks[k][1] <= f /\ f < mono_chunks[k][2]
        /\ \A f \in 0..(t - 1) : \A p \in Pixels :
            /\ mono_writes[f * img_size + p] = 1
            /\ mono_proba[f * img_size + p] = mono_predict_proba(bands[f][p])

\* The driver returned after several chunks, the last one shorter than the others.
C3_Witness ==
    /\ pc = "mono_done"
    /\ Len(mono_chunks) >= 2
    /\ nt_max - nt_min < max_proc_frames
    /\ \E s1, s2 \in DOMAIN mono_proba : mono_proba[s1] # mono_proba[s2]

----------------------------------------------------------------------------
(* Properties of execute (SpecExec).                                       *)

\* The thresholded, not yet dilated masks of the probability maps execute holds.
MonoThresholded == threshold(average_all(mono_proba), mono_threshold)
MultiThresholded == threshold(average_all(multi_proba), multi_threshold)

\* C4: once the driver stage of execute is over, the mono driver was run if
\* and only if the mono probability, the mono mask or the intersection mask
\* is requested, and the multi driver if and only if the multi probability,
\* the multi mask or the intersection mask is requested.
C4_DriversRunIffRequested ==
    pc # "exec_drivers" =>
        /\ Called(driver_calls, "mono")
               <=> (mono_proba_feature \/ mono_mask_feature \/ mask_feature)
        /\ Called(driver_calls, "multi")
               <=> (multi_proba_feature \/ multi_mask_feature \/ mask_feature)

\* C5: when the intersection mask is requested, the mask written under
\* mask_feature is validity AND dilate(M AND U) of the independently
\* thresholded masks M and U; with dilation disabled it is validity AND M AND U.
C5_IntersectionBeforeDilation ==
    (pc = "exec_done" /\ mask_feature) =>
        /\ eopatch_mask.mask_feature =
               [f \in 0..(t - 1) |-> [p \in Pixels |->
                   /\ is_data[f][p]
                   /\ dilate_all(intersect(MonoThresholded, MultiThresholded))[f][p]]]
        /\ dil_kernel = None =>
               eopatch_mask.mask_feature =
                   [f \in 0..(t - 1) |-> [p \in Pixels |->
                       /\ is_data[f][p]
                       /\ MonoThresholded[f][p]
                       /\ MultiThresholded[f][p]]]

\* The mono and multi masks differ, their intersection is not empty, and
\* dilating the two masks first would have given another result.
C5_Witness ==
    /\ pc = "exec_done" /\ mask_feature /\ dil_kernel # None
    /\ MonoThresholded # MultiThresholded
    /\ \E f \in 0..(t - 1) : \E p \in Pixels : eopatch_mask.mask_feature[f][p]
    /\ \E f \in 0..(t - 1) : \E p \in Pixels :
        /\ is_data[f][p]
        /\ ~eopatch_mask.mask_feature[f][p]
        /\ dilate_all(MonoThresholded)[f][p]
        /\ dilate_all(MultiThresholded)[f][p]

\* C6: every array execute writes to the tile is zero / False at every
\* (frame, pixel) where the validity mask is False.
C6_ValidityAbsorbing ==
    pc = "exec_done" =>
        \A f \in 0..(t - 1) : \A p \in Pixels :
            ~is_data[f][p] =>
                /\ mono_mask_feature => ~eopatch_mask.mono_mask_feature[f][p]
                /\ multi_mask_feature => ~eopatch_mask.multi_mask_feature[f][p]
                /\ mask_feature => ~eopatch_mask.mask_feature[f][p]
                /\ mono_proba_feature => eopatch_data.mono_proba_feature[f][p] = 0
                /\ multi_proba_feature => eopatch_data.multi_proba_feature[f][p] = 0

\* All five outputs were written; at some invalid pixel the dilated
\* intersection mask was set before masking, and at some invalid pixel the
\* mono probability was not zero before masking.
C6_Witness ==
    /\ pc = "exec_done"
    /\ mono_mask_feature /\ multi_mask_feature /\ mask_feature
    /\ mono_proba_feature /\ multi_proba_feature
    /\ avg_kernel # None /\ dil_kernel # None
    /\ \E f \in 0..(t - 1) : \E p \in Pixels :
        /\ ~is_data[f][p]
        /\ inter_mask[f][p]
        /\ ~eopatch_mask.mask_feature[f][p]
    /\ \E f \in 0..(t - 1) : \E p \in Pixels :
        /\ ~is_data[f][p]
        /\ mono_proba[f][p] > 0
        /\ eopatch_data.mono_proba_feature[f][p] = 0

\* C10: the dilation step is extensive, every pixel set in a mask is set in
\* the dilated mask, and with the radius unset or non-positive it returns
\* the mask unchanged.
C10_DilationExtensive ==
    [][(pc = "exec_write" /\ pc' = "exec_done") =>
        /\ mono_mask_feature =>
            /\ \A f \in 0..(t - 1) : \A p \in Pixels : mono_mask[f][p] => mono_mask'[f][p]
            /\ (dilation_size = <<>> \/ dilation_size[1] <= 0) => mono_mask' = mono_mask
        /\ multi_mask_feature =>
            /\ \A f \in 0..(t - 1) : \A p \in Pixels : multi_mask[f][p] => multi_mask'[f][p]
            /\ (dilation_size = <<>> \/ dilation_size[1] <= 0) => multi_mask' = multi_mask
        /\ mask_feature =>
            /\ \A f \in 0..(t - 1) : \A p \in Pixels : inter_mask[f][p] => inter_mask'[f][p]
            /\ (dilation_size = <<>> \/ dilation_size[1] <= 0) => inter_mask' = inter_mask
      ]_vars

\* A mask was dilated with a positive radius and grew.
C10_Witness ==
    /\ pc = "exec_done" /\ mono_mask_feature
    /\ dilation_size # <<>> /\ dilation_size[1] > 0
    /\ \E f \in 0..(t - 1) : \E p \in Pixels :
        /\ mono_mask[f][p]
        /\ MonoThresholded[f][p]
    /\ \E f \in 0..(t - 1) : \E p \in Pixels :
        /\ mono_mask[f][p]
        /\ ~MonoThresholded[f][p]

----------------------------------------------------------------------------
(* Further properties of the multi driver (SpecMulti).                     *)

\* C12: from one target frame of the multi driver to the next the window
\* bounds are either both unchanged or both advanced by exactly one frame;
\* they never move backward, never change the window length and never jump.
C12_WindowSlidesByOne ==
    [][(t_i >= 0 /\ t_i' = t_i + 1) =>
          \/ (nt_min' = nt_min /\ nt_max' = nt_max)
          \/ (nt_min' = nt_min + 1 /\ nt_max' = nt_max + 1)
      ]_vars

\* The window stayed in place at the start of the sequence and has since
\* advanced, and it stays in place again at the end of the sequence.
C12_Witness ==
    /\ pc = "multi_done" /\ err = "none"
    /\ t = 5 /\ max_proc_frames = 3
    /\ nt_min = 2 /\ nt_max = 5
    /\ prev_nt_min = 2 /\ prev_nt_max = 5

\* C13: for a stack whose windows all have at least two frames the multi
\* driver calls the scoring function exactly t times, once per target frame
\* in ascending order, with the window state of frame i updated before
\* frame i is scored, and writes the i-th result only to the slots of frame
\* i, so every slot of the buffer is written exactly once.
C13_OneScoringCallPerFrame ==
    (t_i >= 0 /\ Min2(max_proc_frames, t) >= 2) =>
        /\ err = "none"
        /\ Len(multi_calls) = t_i + 1
        /\ \A k \in 1..Len(multi_calls) :
            /\ multi_calls[k].target = k - 1
            /\ multi_calls[k].loc_mu = true_win_avg(bands[k - 1], is_data[k - 1])
        /\ \A f \in 0..(t - 1) : \A p \in Pixels :
            /\ multi_writes[f * img_size + p] = (IF f <= t_i THEN 1 ELSE 0)
            /\ multi_proba[f * img_size + p] =
                   (IF f <= t_i THEN multi_predict_proba(bands[f][p]) ELSE Unwritten)
        /\ pc = "multi_done" =>
            /\ Len(multi_calls) = t
            /\ \A s \in DOMAIN multi_writes : multi_writes[s] = 1

\* The driver returned after scoring frames with different scores over a
\* window that slid.
C13_Witness ==
    /\ pc = "multi_done" /\ err = "none"
    /\ t >= 4 /\ max_proc_frames = 3
    /\ Len(multi_calls) = t
    /\ \E s1, s2 \in DOMAIN multi_proba : multi_proba[s1] # multi_proba[s2]
    /\ multi_calls[1].loc_mu # multi_calls[t].loc_mu

\* Equality of two quotients.
SameQuotient(a, b) == a[1] * b[2] = b[1] * a[2]

\* C15: for every pixel and band of a scored frame whose window has at least
\* two frames and where the target frame is valid, diff_mean is the target's
\* value minus the mean of the other frames of the window that are valid at
\* that pixel.
C15_DiffMeanIsTargetMinusOthers ==
    (t_i >= 0 /\ err = "none" /\ nt_max - nt_min >= 2) =>
        \A p \in Pixels : \A b \in Bands :
            LET others == unmasked_frames(nt_min, nt_max, p) \ {t_i}
            IN  (is_data[t_i][p] /\ others # {}) =>
                    SameQuotient(diff_mean[p][b],
                        <<bands[t_i][p][b] * Cardinality(others) - SumFrames(others, p, b),
                          Cardinality(others)>>)

----------------------------------------------------------------------------
(* Further properties of execute (SpecExec).                               *)

\* C14: for every combination of requested outputs, every step of execute
\* that consumes a probability map consumes a map whose driver ran; no
\* output is derived from a missing (None) probability and no mask variable
\* is read before it was assigned.
C14_NoMissingProbability ==
    /\ err # "TypeError"
    /\ err # "UnboundLocalError"
    /\ pc \in {"exec_write", "exec_done"} =>
        /\ mono_mask # None => (Called(driver_calls, "mono") /\ mono_proba # None)
        /\ multi_mask # None => (Called(driver_calls, "multi") /\ multi_proba # None)
        /\ inter_mask # None => (mono_mask # None /\ multi_mask # None)
        /\ (mono_mask_feature \/ mask_feature) => mono_mask # None
        /\ (multi_mask_feature \/ mask_feature) => multi_mask # None
        /\ mask_feature => inter_mask # None
        /\ mono_proba_feature => (Called(driver_calls, "mono") /\ mono_proba # None)
        /\ multi_proba_feature => (Called(driver_calls, "multi") /\ multi_proba # None)
    /\ pc = "exec_done" =>
        /\ mono_mask_feature <=> eopatch_mask.mono_mask_feature # None
        /\ multi_mask_feature <=> eopatch_mask.multi_mask_feature # None
        /\ mask_feature <=> eopatch_mask.mask_feature # None
        /\ mono_proba_feature <=> eopatch_data.mono_proba_feature # None
        /\ multi_proba_feature <=> eopatch_data.multi_proba_feature # None

\* Outputs of both paths were requested without the intersection, and written.
C14_Witness ==
    /\ pc = "exec_done"
    /\ mono_proba_feature /\ multi_mask_feature
    /\ ~mask_feature /\ ~mono_mask_feature /\ ~multi_proba_feature
    /\ driver_calls = <<"multi", "mono">>
    /\ eopatch_data.mono_proba_feature # None
    /\ eopatch_mask.multi_mask_feature # None
    /\ mono_mask = None

\* C16: when the mono mask, the multi mask and the intersection mask are all
\* requested, every pixel set in the written intersection mask is set in
\* the written mono mask and in the written multi mask.
C16_IntersectionWithinBoth ==
    (pc = "exec_done" /\ mono_mask_feature /\ multi_mask_feature /\ mask_feature) =>
        \A f \in 0..(t - 1) : \A p \in Pixels :
            eopatch_mask.mask_feature[f][p] =>
                /\ eopatch_mask.mono_mask_feature[f][p]
                /\ eopatch_mask.multi_mask_feature[f][p]

\* The written intersection is not empty and strictly inside the written
\* mono mask, with averaging, dilation and an invalid pixel in play.
C16_Witness ==
    /\ pc = "exec_done" /\ mono_mask_feature /\ multi_mask_feature /\ mask_feature
    /\ dil_kernel # None
    /\ \E f \in 0..(t - 1) : \E p \in Pixels : ~is_data[f][p]
    /\ \E f \in 0..(t - 1) : \E p \in Pixels : eopatch_mask.mask_feature[f][p]
    /\ \E f \in 0..(t - 1) : \E p \in Pixels :
        /\ eopatch_mask.mono_mask_feature[f][p]
        /\ ~eopatch_mask.mask_feature[f][p]


\* C17: computing rescale factors or issuing a data request never changes the
\* task's configuration: no step of AddCloudMaskTask.execute changes
\* cm_size_x or cm_size_y, for either service type and whichever of the two
\* sizes is None.
C17_ConfigNeverMutated ==
    [][cm_size_x' = cm_size_x /\ cm_size_y' = cm_size_y]_vars

\* C18: when _make_request has returned, the data array and the date list
\* have the same length and the i-th date is the acquisition date of the
\* i-th frame.
C18_DatesMatchFrames ==
    pc = "cloud_requested" =>
        /\ Len(new_data) = Len(new_dates)
        /\ \A k \in DOMAIN new_data : new_dates[k] = new_data[k]

\* The tile or the configuration lacks what execute needs: the multi-temporal
\* task's data feature or validity mask, or the single-scene task's data
\* feature while both sizes are None.
ConfigurationError ==
    \/ task = "AddMultiCloudMaskTask" /\ (~has_data_feature \/ ~has_is_data)
    \/ task = "AddCloudMaskTask" /\ ~has_data_feature
           /\ cm_size_x = None /\ cm_size_y = None

\* C11: a configuration error surfaces before any computation: the first step
\* of execute raises, and no classifier is ever invoked, no request is ever
\* issued and nothing is stored in or removed from the tile.
C11_ConfigurationErrorFirst ==
    /\ [](ConfigurationError =>
            /\ ~classifier_invoked
            /\ ~request_issued
            /\ eopatch_mask = None /\ eopatch_data = None
            /\ pc \in {"exec_drivers", "cloud_start", "raised"})
    /\ [][ConfigurationError =>
            /\ pc' = "raised"
            /\ err' \in {"KeyError", "ValueError"}
            /\ UNCHANGED <<timestamps, bands, is_data, eopatch_mask, eopatch_data>>]_vars

C11_Witness ==
    /\ pc = "raised"
    /\ err = "ValueError"
    /\ task = "AddCloudMaskTask"
    /\ ~data_empty
    /\ ~has_data_feature
    /\ cm_size_x = None /\ cm_size_y = None
    /\ ~request_issued
    /\ ~classifier_invoked
    /\ Len(request_dates) > 0

====
